---- MODULE Spec2Model ----
(***************************************************************************)
(* A model of the pbxproj value parser (src/parser/pbxproj/serialize.rs),  *)
(* of the configuration-list object (src/pbxproj/object/build/list.rs) and *)
(* of the remote package reference                                         *)
(* (src/pbxproj/object/swift_package/remote.rs).                           *)
(*                                                                         *)
(* Text is a sequence of one-character strings, so that the conversions    *)
(* the code applies to text (case conversion, quote removal, integer       *)
(* parsing) are computed character by character.                           *)
(***************************************************************************)
EXTENDS Integers, Sequences, FiniteSets, TLC

VARIABLES
    input,      \* what the operation under way was given
    output,     \* what the last operation returned
    pc,         \* the position in the pipeline: "start", then the last operation
    references, \* XCConfigurationList.build_configuration_references
    data,       \* PBXRootObject: identifier -> object
    before,     \* the references and the data as they were when the last operation began
    minted      \* the identifiers Uuid::new_v4 has returned so far

vars == <<input, output, pc, references, data, before, minted>>

(***************************************************************************)
(* Bounds of the model.                                                    *)
(***************************************************************************)
MaxKeyLen == 3
MaxBoolLen == 3
MaxNumLen == 3
MaxStrLen == 3
MaxRefs == 2
NumIds == 2
NumUuids == 4

(***************************************************************************)
(* Results: Rust's Ok(v) and Err(e).                                       *)
(***************************************************************************)
Ok(v) == [ok |-> TRUE, v |-> v]
Err(e) == [ok |-> FALSE, e |-> e]
None == [some |-> FALSE]
Some(v) == [some |-> TRUE, v |-> v]

(***************************************************************************)
(* PBXValue, the generic value the parser produces.                        *)
(***************************************************************************)
PBXString(s) == [type |-> "String", v |-> s]
PBXNumber(n) == [type |-> "Number", v |-> n]
PBXBool(b) == [type |-> "Bool", v |-> b]
PBXArray(a) == [type |-> "Array", v |-> a]
PBXObjectValue(m) == [type |-> "Object", v |-> m]
PBXKind(k) == [type |-> "Kind", v |-> k]

(***************************************************************************)
(* Characters.                                                             *)
(***************************************************************************)
UpperLetters == <<"A","B","C","D","E","F","G","H","I","J","K","L","M",
                  "N","O","P","Q","R","S","T","U","V","W","X","Y","Z">>
LowerLetters == <<"a","b","c","d","e","f","g","h","i","j","k","l","m",
                  "n","o","p","q","r","s","t","u","v","w","x","y","z">>
Digits == <<"0","1","2","3","4","5","6","7","8","9">>

Range(s) == {s[i] : i \in DOMAIN s}
IsUpper(c) == c \in Range(UpperLetters)
IsLower(c) == c \in Range(LowerLetters)
IsDigit(c) == c \in Range(Digits)
IsHex(c) == IsDigit(c) \/ c \in {"A","B","C","D","E","F"}

ToLower(c) ==
    IF IsUpper(c)
    THEN LowerLetters[CHOOSE i \in DOMAIN UpperLetters : UpperLetters[i] = c]
    ELSE c
DigitValue(c) == (CHOOSE i \in DOMAIN Digits : Digits[i] = c) - 1

\* All texts over an alphabet, of length 1..n.
Texts(alphabet, n) == UNION {[1..k -> alphabet] : k \in 1..n}

(***************************************************************************)
(* convert_case: to_case(Case::Snake).  The text is split into words at    *)
(* the delimiters (underscore, hyphen, space), which are dropped, and at   *)
(* the boundaries lower|upper, letter|digit, digit|letter and, in an       *)
(* acronym, before the last capital that a lower-case letter follows; the  *)
(* empty words are dropped, every word is lower-cased and the words are    *)
(* joined by underscores.                                                  *)
(***************************************************************************)
IsDelimiter(c) == c \in {"_", "-", " "}

BoundaryAfter(s, i) ==
    /\ i < Len(s)
    /\ \/ IsLower(s[i]) /\ IsUpper(s[i + 1])
       \/ IsUpper(s[i]) /\ IsDigit(s[i + 1])
       \/ IsDigit(s[i]) /\ IsUpper(s[i + 1])
       \/ IsDigit(s[i]) /\ IsLower(s[i + 1])
       \/ IsLower(s[i]) /\ IsDigit(s[i + 1])
       \/ /\ i + 2 <= Len(s)
          /\ IsUpper(s[i]) /\ IsUpper(s[i + 1]) /\ IsLower(s[i + 2])

JoinWord(acc, word) ==
    IF word = <<>> THEN acc
    ELSE IF acc = <<>> THEN word
    ELSE acc \o <<"_">> \o word

RECURSIVE SnakeFrom(_, _, _, _)
SnakeFrom(s, i, word, acc) ==
    IF i > Len(s) THEN JoinWord(acc, word)
    ELSE IF IsDelimiter(s[i]) THEN SnakeFrom(s, i + 1, <<>>, JoinWord(acc, word))
    ELSE IF BoundaryAfter(s, i)
         THEN SnakeFrom(s, i + 1, <<>>, JoinWord(acc, Append(word, ToLower(s[i]))))
         ELSE SnakeFrom(s, i + 1, Append(word, ToLower(s[i])), acc)

ToSnakeCase(s) == SnakeFrom(s, 1, <<>>, <<>>)

(***************************************************************************)
(* Text constants.                                                         *)
(***************************************************************************)
Quote == "\""
Backslash == "\\"
Dot == "."
YES == <<"Y","E","S">>
NO == <<"N","O">>
KeyFileRef == <<"f","i","l","e","R","e","f">>
KeyArchiveVersionText == <<"a","r","c","h","i","v","e","V","e","r","s","i","o","n">>
KeyObjectVersionText == <<"o","b","j","e","c","t","V","e","r","s","i","o","n">>
KeyClassesText == <<"c","l","a","s","s","e","s">>
KeyRootObjectText == <<"r","o","o","t","O","b","j","e","c","t">>
KeyObjectsText == <<"o","b","j","e","c","t","s">>
KeyBuildConfigurations ==
    <<"b","u","i","l","d","C","o","n","f","i","g","u","r","a","t","i","o","n","s">>
KeyDefaultConfigurationIsVisible ==
    <<"d","e","f","a","u","l","t","C","o","n","f","i","g","u","r","a","t","i","o","n",
      "I","s","V","i","s","i","b","l","e">>
KeyDefaultConfigurationName ==
    <<"d","e","f","a","u","l","t","C","o","n","f","i","g","u","r","a","t","i","o","n",
      "N","a","m","e">>
KeyRepositoryURL == <<"r","e","p","o","s","i","t","o","r","y","U","R","L">>
KeyRequirement == <<"r","e","q","u","i","r","e","m","e","n","t">>
\* The keys TryFrom<&str> for PBXProjectData looks up.
KeyArchiveVersion == <<"a","r","c","h","i","v","e","_","v","e","r","s","i","o","n">>
KeyObjectVersion == <<"o","b","j","e","c","t","_","v","e","r","s","i","o","n">>
KeyClasses == <<"c","l","a","s","s","e","s">>
KeyRootObject == <<"r","o","o","t","_","o","b","j","e","c","t">>
KeyObjects == <<"o","b","j","e","c","t","s">>
\* Object identifiers of the parse_key_pair test and of the specification's scenario.
KindPBXBuildFile == <<"P","B","X","B","u","i","l","d","F","i","l","e">>
KindXCConfigurationList ==
    <<"X","C","C","o","n","f","i","g","u","r","a","t","i","o","n","L","i","s","t">>
KindXCRemoteSwiftPackageReference ==
    <<"X","C","R","e","m","o","t","e","S","w","i","f","t","P","a","c","k","a","g","e",
      "R","e","f","e","r","e","n","c","e">>
KnownKinds ==
    {KindPBXBuildFile, KindXCConfigurationList, KindXCRemoteSwiftPackageReference}

Uuid1 == <<"0","E","C","0","7","A","C","E","8","9","1","5","0","E","C","9",
           "0","4","4","2","3","9","3","B">>
Uuid2 == <<"F","2","E","6","4","0","B","5","C","2","B","8","5","9","1","4",
           "F","6","8","0","1","4","9","8">>
Uuid3 == <<"A","B","C","D","E","F","0","1","2","3","4","5","6","7","8","9",
           "A","B","C","D","E","F","0","1">>

(***************************************************************************)
(* The grammar (parser/pbxproj/grammar.pest): which rule a token matches.  *)
(* A reference token is a fixed-length hex-like token and is tried before  *)
(* the generic identifier; a key is a reference token or an identifier.    *)
(***************************************************************************)
UuidLen == 24
IsUuid(text) == Len(text) = UuidLen /\ \A i \in DOMAIN text : IsHex(text[i])
KeyInner(text) == IF IsUuid(text) THEN "uuid" ELSE "ident"

\* A quoted string: a quote, the escaped content, a quote.  Inside, a quote or a
\* backslash appears only after an escaping backslash.
RECURSIVE IsEscaped(_, _)
IsEscaped(s, i) ==
    IF i > Len(s) THEN TRUE
    ELSE IF s[i] = Backslash THEN i + 1 <= Len(s) /\ IsEscaped(s, i + 2)
    ELSE s[i] # Quote /\ IsEscaped(s, i + 1)
IsStringToken(text) ==
    /\ Len(text) >= 2
    /\ text[1] = Quote
    /\ text[Len(text)] = Quote
    /\ IsEscaped(SubSeq(text, 2, Len(text) - 1), 1)

\* A numeric token: digits, with decimal points between digits.
IsNumberToken(text) ==
    /\ Len(text) >= 1
    /\ \A i \in DOMAIN text : IsDigit(text[i]) \/ text[i] = Dot
    /\ IsDigit(text[1]) /\ IsDigit(text[Len(text)])
    /\ \A i \in 1..(Len(text) - 1) : ~(text[i] = Dot /\ text[i + 1] = Dot)

(***************************************************************************)
(* str::parse::<isize>: the digits are accumulated from the left with      *)
(* checked arithmetic, so that leading zeros never overflow and a value    *)
(* beyond isize::MAX is an error.                                          *)
(***************************************************************************)
IsizeMaxText == <<"9","2","2","3","3","7","2","0","3","6","8","5","4","7","7","5","8","0","7">>

RECURSIVE StripZeros(_)
StripZeros(s) ==
    IF Len(s) > 1 /\ s[1] = "0" THEN StripZeros(Tail(s)) ELSE s

\* a <= b, for two digit texts of the same length
RECURSIVE DigitsLeq(_, _)
DigitsLeq(a, b) ==
    IF a = <<>> THEN TRUE
    ELSE IF DigitValue(a[1]) # DigitValue(b[1]) THEN DigitValue(a[1]) < DigitValue(b[1])
    ELSE DigitsLeq(Tail(a), Tail(b))

FitsIsize(digits) ==
    LET sig == StripZeros(digits) IN
    \/ Len(sig) < Len(IsizeMaxText)
    \/ Len(sig) = Len(IsizeMaxText) /\ DigitsLeq(sig, IsizeMaxText)

RECURSIVE Accumulate(_, _)
Accumulate(s, acc) ==
    IF s = <<>> THEN acc ELSE Accumulate(Tail(s), acc * 10 + DigitValue(s[1]))

ParseInt(text) ==
    IF text = <<>> \/ \E i \in DOMAIN text : ~IsDigit(text[i])
    THEN Err([kind |-> "ParseIntError", reason |-> "InvalidDigit", text |-> text])
    ELSE IF ~FitsIsize(text)
    THEN Err([kind |-> "ParseIntError", reason |-> "PosOverflow", text |-> text])
    ELSE Ok(Accumulate(text, 0))

(***************************************************************************)
(* PBXProjectParser: the reduction of one parse-tree node.                 *)
(***************************************************************************)
Contains(text, c) == \E i \in DOMAIN text : text[i] = c
Replace(text, c) == SelectSeq(text, LAMBDA x : x # c)

\* key, converting the case of every key, whatever rule it matched
key_converting_all(inner, text) == Ok(ToSnakeCase(text))

key(inner, text) ==
    IF inner = "ident" THEN Ok(ToSnakeCase(text)) ELSE Ok(text)

string(text) == Ok(PBXString(Replace(text, Quote)))

\* PBXObjectKind::from(&str): the tag looked up among the known kinds; a tag not among
\* them becomes Unknown, carrying the tag.
PBXObjectKind_from(text) ==
    IF text \in KnownKinds THEN [known |-> TRUE, tag |-> text]
                           ELSE [known |-> FALSE, tag |-> text]

kind(text) == Ok(PBXKind(PBXObjectKind_from(text)))

ident(text) == Ok(PBXString(text))

uuid(text) == Ok(PBXString(text))

\* number, reading a decimal token as the integer before its first point
number_truncating(text) ==
    LET cut == IF Contains(text, Dot)
               THEN SubSeq(text, 1, (CHOOSE i \in DOMAIN text :
                        text[i] = Dot /\ \A j \in 1..(i - 1) : text[j] # Dot) - 1)
               ELSE text
        r == ParseInt(cut)
    IN  IF r.ok THEN Ok(PBXNumber(r.v)) ELSE r

number(text) ==
    IF Contains(text, Dot) THEN Ok(PBXString(text))
    ELSE LET r == ParseInt(text) IN
         IF r.ok THEN Ok(PBXNumber(r.v)) ELSE r

\* bool, taking any token that is not YES for NO
bool_defaulting(text) ==
    IF text = YES THEN Ok(PBXBool(TRUE)) ELSE Ok(PBXBool(FALSE))

bool(text) ==
    IF text = YES THEN Ok(PBXBool(TRUE))
    ELSE IF text = NO THEN Ok(PBXBool(FALSE))
    ELSE Err([kind |-> "InvalidBoolLiteral", text |-> text])

(***************************************************************************)
(* The tokens the parser is run on.                                        *)
(***************************************************************************)
KeyAlphabet == {"a", "B", "C", "_", "1"}
BoolAlphabet == {"Y", "E", "S", "N", "O"}
NumberAlphabet == {"0", "1", "9", Dot}
StringAlphabet == {"a", "b", Backslash, Quote}
Overflowing == [i \in 1..20 |-> "9"]

KeyTexts ==
    Texts(KeyAlphabet, MaxKeyLen)
        \cup {KeyFileRef, KeyBuildConfigurations, KeyRepositoryURL, Uuid1, Uuid2, Uuid3}
BoolTexts == Texts(BoolAlphabet, MaxBoolLen) \cup {<<"y","e","s">>, <<"n","o">>}
NumberTexts ==
    {t \in Texts(NumberAlphabet, MaxNumLen) : IsNumberToken(t)} \cup {Overflowing}
StringTexts ==
    {t \in {<<Quote>> \o s \o <<Quote>> : s \in Texts(StringAlphabet, MaxStrLen) \cup {<<>>}} :
        IsStringToken(t)}

KindTexts ==
    {KindPBXBuildFile, KindXCConfigurationList, KindXCRemoteSwiftPackageReference,
     <<"P","B","X","F","o","o">>}
IdentTexts == {KeyFileRef, <<"D","e","b","u","g">>, <<"a","_","B">>}
UuidTexts == {Uuid1, Uuid2, Uuid3}

ParserInputs ==
    [rule : {"key"}, text : KeyTexts]
        \cup [rule : {"kind"}, text : KindTexts]
        \cup [rule : {"ident"}, text : IdentTexts]
        \cup [rule : {"uuid"}, text : UuidTexts]
        \cup [rule : {"bool"}, text : BoolTexts]
        \cup [rule : {"number"}, text : NumberTexts]
        \cup [rule : {"string"}, text : StringTexts]

(***************************************************************************)
(* The state of the parts of the model a specification leaves alone.       *)
(***************************************************************************)
EmptyMap == [k \in {} |-> None]
NoGraph ==
    /\ references = <<>>
    /\ data = EmptyMap
    /\ before = [references |-> <<>>, data |-> EmptyMap]
    /\ minted = {}
GraphUnchanged == UNCHANGED <<references, data, before, minted>>

(***************************************************************************)
(* SpecParser: one token, reduced by the function of its rule.             *)
(***************************************************************************)
InitParser ==
    /\ input \in ParserInputs
    /\ output = None
    /\ pc = "start"
    /\ NoGraph

Key ==
    /\ pc = "start" /\ input.rule = "key"
    /\ output' = key(KeyInner(input.text), input.text)
    /\ pc' = "key"
    /\ UNCHANGED input /\ GraphUnchanged

String ==
    /\ pc = "start" /\ input.rule = "string"
    /\ output' = string(input.text)
    /\ pc' = "string"
    /\ UNCHANGED input /\ GraphUnchanged

Number ==
    /\ pc = "start" /\ input.rule = "number"
    /\ output' = number(input.text)
    /\ pc' = "number"
    /\ UNCHANGED input /\ GraphUnchanged

Bool ==
    /\ pc = "start" /\ input.rule = "bool"
    /\ output' = bool(input.text)
    /\ pc' = "bool"
    /\ UNCHANGED input /\ GraphUnchanged

Kind ==
    /\ pc = "start" /\ input.rule = "kind"
    /\ output' = kind(input.text)
    /\ pc' = "kind"
    /\ UNCHANGED input /\ GraphUnchanged

Ident ==
    /\ pc = "start" /\ input.rule = "ident"
    /\ output' = ident(input.text)
    /\ pc' = "ident"
    /\ UNCHANGED input /\ GraphUnchanged

Uuid ==
    /\ pc = "start" /\ input.rule = "uuid"
    /\ output' = uuid(input.text)
    /\ pc' = "uuid"
    /\ UNCHANGED input /\ GraphUnchanged

NextParser == Key \/ String \/ Number \/ Bool \/ Kind \/ Ident \/ Uuid

SpecParser == InitParser /\ [][NextParser]_vars

(***************************************************************************)
(* Properties of the parser.                                               *)
(***************************************************************************)
\* The letters and digits of a text, lower-cased, the delimiters left out.
Letters(s) ==
    LET kept == SelectSeq(s, LAMBDA c : ~IsDelimiter(c))
    IN  [i \in 1..Len(kept) |-> ToLower(kept[i])]

\* Lower snake case: no capital, no hyphen or space, underscores only between words.
SnakeShape(s) ==
    /\ \A i \in DOMAIN s : ~IsUpper(s[i]) /\ s[i] \notin {"-", " "}
    /\ s # <<>> => s[1] # "_" /\ s[Len(s)] # "_"
    /\ \A i \in 1..(Len(s) - 1) : ~(s[i] = "_" /\ s[i + 1] = "_")

\* C5: the key the parser produces is the lower-snake-case form of the key's text
\* (fileRef becomes file_ref), except that an identifier-shaped key is kept verbatim.
C5_KeyNormalized ==
    pc = "key" =>
        /\ output.ok
        /\ IF IsUuid(input.text)
           THEN output.v = input.text
           ELSE /\ output.v = ToSnakeCase(input.text)
                /\ SnakeShape(output.v)
                /\ Letters(output.v) = Letters(input.text)
        /\ input.text = KeyFileRef => output.v = <<"f","i","l","e","_","r","e","f">>

C5_Witness ==
    /\ pc = "key"
    /\ input.text = KeyFileRef
    /\ output = Ok(<<"f","i","l","e","_","r","e","f">>)

\* The integer a text of digits denotes: the sum of its digits times their powers of ten.
RECURSIVE Denoted(_)
Denoted(s) ==
    IF s = <<>> THEN 0
    ELSE DigitValue(s[Len(s)]) + 10 * Denoted(SubSeq(s, 1, Len(s) - 1))

\* C6 as stated: every numeric token without a decimal point parses to Number holding
\* the integer it denotes, and every token with a decimal point to String of its text.
C6_Original ==
    pc = "number" =>
        IF Contains(input.text, Dot)
        THEN output.ok /\ output.v.type = "String" /\ output.v.v = input.text
        ELSE /\ output.ok
             /\ output.v.type = "Number"
             /\ output.v.v = Denoted(input.text)

\* C6 as amended: a numeric token without a decimal point parses to Number holding the
\* integer it denotes, or, when it has 19 significant digits or more and does not fit
\* the integer type, fails with a parse error, never yielding another value; a token
\* with a decimal point parses to String of its text.
C6_NumberExactOrError ==
    pc = "number" =>
        IF Contains(input.text, Dot)
        THEN output.ok /\ output.v.type = "String" /\ output.v.v = input.text
        ELSE \/ /\ output.ok
                /\ output.v.type = "Number"
                /\ output.v.v = Denoted(input.text)
             \/ /\ ~output.ok
                /\ output.e.kind = "ParseIntError"
                /\ Len(StripZeros(input.text)) >= Len(IsizeMaxText)

C6_Witness ==
    /\ pc = "number"
    /\ input.text = <<"1", "0", "9">>
    /\ output = Ok(PBXNumber(109))

\* C7: at the boolean rule YES parses to Bool(true), NO to Bool(false), and any other
\* token fails with an invalid-boolean-literal error that carries the token's text.
C7_BoolOnlyYesNo ==
    pc = "bool" =>
        /\ input.text = YES => output = Ok(PBXBool(TRUE))
        /\ input.text = NO => output = Ok(PBXBool(FALSE))
        /\ input.text \notin {YES, NO} =>
            /\ ~output.ok
            /\ output.e.kind = "InvalidBoolLiteral"
            /\ output.e.text = input.text

C7_Witness ==
    /\ pc = "bool"
    /\ input.text = <<"Y", "E">>
    /\ ~output.ok
    /\ output.e.text = <<"Y", "E">>

\* C8: the String of a quoted-string token is the token's text without its first and
\* its last quote, every character between them kept, an embedded quote included.
C8_StripsEnclosingQuotesOnly ==
    pc = "string" =>
        output = Ok(PBXString(SubSeq(input.text, 2, Len(input.text) - 1)))

(***************************************************************************)
(* The object graph.  An identifier is an opaque key; the identifiers      *)
(* 1..NumIds are those a project file may hold, the others are those       *)
(* Uuid::new_v4 may return.                                                *)
(***************************************************************************)
Ids == 1..NumIds
UuidPool == (NumIds + 1)..(NumIds + NumUuids)

XCBuildConfiguration(name) == [kind |-> "XCBuildConfiguration", name |-> name]
PBXFileReference == [kind |-> "PBXFileReference", name |-> "file"]
NameOf(id) == IF id % 2 = 1 THEN "Staging" ELSE "Testing"

\* PBXRootObject::get and PBXRootObject::insert
Get(d, id) == IF id \in DOMAIN d THEN Some(d[id]) ELSE None
Insert(d, id, object) ==
    [k \in DOMAIN d \cup {id} |-> IF k = id THEN object ELSE d[k]]

\* PBXObject::as_xc_build_configuration
as_xc_build_configuration(object) ==
    IF object.kind = "XCBuildConfiguration" THEN Some(object) ELSE None

\* get_build_configurations, giving up at the first reference that does not resolve
RECURSIVE get_build_configurations_strict(_, _)
get_build_configurations_strict(refs, d) ==
    IF refs = <<>> THEN <<>>
    ELSE LET found == Get(d, Head(refs))
             config == IF found.some THEN as_xc_build_configuration(found.v) ELSE None
         IN  IF config.some
             THEN <<config.v>> \o get_build_configurations_strict(Tail(refs), d)
             ELSE <<>>

RECURSIVE get_build_configurations(_, _)
get_build_configurations(refs, d) ==
    IF refs = <<>> THEN <<>>
    ELSE LET found == Get(d, Head(refs))
             config == IF found.some THEN as_xc_build_configuration(found.v) ELSE None
             rest == get_build_configurations(Tail(refs), d)
         IN  IF config.some THEN <<config.v>> \o rest ELSE rest

\* set_build_configuration_references: the references replaced, the old ones returned
set_build_configuration_references(refs, new) ==
    [references |-> new, old |-> refs]

\* add_default_configurations, pushing the release identifier before the debug one
add_default_configurations_swapped(refs, d, debug_id, release_id) ==
    [references |-> refs \o <<release_id, debug_id>>,
     data |-> Insert(Insert(d, debug_id, XCBuildConfiguration("Debug")),
                     release_id, XCBuildConfiguration("Release"))]

\* add_default_configurations, appending the identifiers before the second insertion
\* and returning there
add_default_configurations_partial(refs, d, debug_id, release_id) ==
    [references |-> refs \o <<debug_id, release_id>>,
     data |-> Insert(d, debug_id, XCBuildConfiguration("Debug"))]

add_default_configurations(refs, d, debug_id, release_id) ==
    LET debug == XCBuildConfiguration("Debug")
        d1 == Insert(d, debug_id, debug)
        c1 == <<debug_id>>
        release == XCBuildConfiguration("Release")
        d2 == Insert(d1, release_id, release)
        c2 == Append(c1, release_id)
    IN  [references |-> refs \o c2, data |-> d2]

(***************************************************************************)
(* SpecGraph: a configuration list and the graph it refers to, under       *)
(* add_default_configurations, get_build_configurations and                *)
(* set_build_configuration_references.  Each call holds its borrows of the *)
(* list and of the graph from entry to return, so a call is one step.      *)
(***************************************************************************)
InitReferences == {<<>>} \cup Texts(Ids, MaxRefs)
InitData ==
    UNION {{[i \in S |-> IF k[i] THEN XCBuildConfiguration(NameOf(i)) ELSE PBXFileReference] :
                k \in [S -> BOOLEAN]} : S \in SUBSET Ids}

InitGraph ==
    /\ references \in InitReferences
    /\ data \in InitData
    /\ before = [references |-> references, data |-> data]
    /\ minted = {}
    /\ input = None
    /\ output = None
    /\ pc = "start"

AddDefaultConfigurations ==
    \E debug_id \in UuidPool \ minted :
        \E release_id \in UuidPool \ (minted \cup {debug_id}) :
            LET r == add_default_configurations(references, data, debug_id, release_id)
            IN  /\ references' = r.references
                /\ data' = r.data
                /\ before' = [references |-> references, data |-> data]
                /\ minted' = minted \cup {debug_id, release_id}
                /\ pc' = "add_default_configurations"
                /\ output' = None
                /\ UNCHANGED input

GetBuildConfigurations ==
    /\ output' = get_build_configurations(references, data)
    /\ before' = [references |-> references, data |-> data]
    /\ pc' = "get_build_configurations"
    /\ UNCHANGED <<input, references, data, minted>>

\* The lists a caller passes: the empty list, and each single reference of the project file.
NewReferences == {<<>>} \cup {<<id>> : id \in Ids}

SetBuildConfigurationReferences ==
    \E new \in NewReferences :
        LET r == set_build_configuration_references(references, new)
        IN  /\ references' = r.references
            /\ output' = r.old
            /\ before' = [references |-> references, data |-> data]
            /\ pc' = "set_build_configuration_references"
            /\ UNCHANGED <<input, data, minted>>

NextGraph ==
    AddDefaultConfigurations \/ GetBuildConfigurations \/ SetBuildConfigurationReferences

SpecGraph == InitGraph /\ [][NextGraph]_vars

(***************************************************************************)
(* Properties of the graph operations.                                     *)
(***************************************************************************)
\* C1: add_default_configurations inserts exactly two new entries, build configurations
\* named Debug and Release, and appends exactly their two identifiers, Debug's first,
\* after the references the list held, which keep their values and order.
C1_AddsDebugThenRelease ==
    pc = "add_default_configurations" =>
        LET n == Len(before.references) IN
        /\ Len(references) = n + 2
        /\ SubSeq(references, 1, n) = before.references
        /\ LET debug_id == references[n + 1]
               release_id == references[n + 2]
           IN  /\ debug_id # release_id
               /\ {debug_id, release_id} \cap DOMAIN before.data = {}
               /\ DOMAIN data = DOMAIN before.data \cup {debug_id, release_id}
               /\ data[debug_id] = XCBuildConfiguration("Debug")
               /\ data[release_id] = XCBuildConfiguration("Release")
               /\ \A k \in DOMAIN before.data : data[k] = before.data[k]

C1_Witness ==
    /\ pc = "add_default_configurations"
    /\ before.references = <<>>
    /\ Len(references) = 2
    /\ data[references[1]].name = "Debug"
    /\ data[references[2]].name = "Release"

\* Every identifier generated so far is referenced by the list exactly when its object is
\* in the graph.
Linked ==
    \A id \in minted : id \in Range(references) <=> id \in DOMAIN data

\* C2: add_default_configurations is applied as a unit.  Every call takes the list and
\* the graph from one observable state to the next: if, before the call, every generated
\* identifier was referenced exactly when its object was in the graph, the same holds
\* after it (so it holds in every state of any sequence of calls, reads included); and
\* between the two states an identifier is newly among the references if and only if its
\* object is newly in the graph, if and only if the call generated it, every identifier
\* the call generated being both referenced and present in the state it leaves.
C2_ReferenceIffObject ==
    [][/\ pc' \in {"add_default_configurations", "get_build_configurations"}
           => (Linked => Linked')
       /\ pc' = "add_default_configurations"
           => \A id \in UuidPool \cup Ids :
                  /\ (id \in Range(references') /\ id \notin Range(references))
                         <=> (id \in DOMAIN data' /\ id \notin DOMAIN data)
                  /\ (id \in DOMAIN data' /\ id \notin DOMAIN data)
                         <=> (id \in minted' /\ id \notin minted)
                  /\ (id \in minted' /\ id \notin minted)
                         => (id \in Range(references') /\ id \in DOMAIN data')]_vars

C2_Witness ==
    /\ pc = "add_default_configurations"
    /\ Cardinality(minted) = 4
    /\ minted \subseteq Range(references)
    /\ minted \subseteq DOMAIN data

\* C3: get_build_configurations returns, in the order of the references, the build
\* configuration of every reference the graph resolves to one, and skips the others:
\* a list of one real and one absent identifier resolves to one element.
C3_ResolvesInOrderSkippingDangling ==
    pc = "get_build_configurations" =>
        LET resolving ==
                SelectSeq(references,
                          LAMBDA r : r \in DOMAIN data /\ data[r].kind = "XCBuildConfiguration")
        IN  /\ Len(output) = Len(resolving)
            /\ \A i \in 1..Len(resolving) : output[i] = data[resolving[i]]
            /\ (/\ Len(references) = 2
                /\ Cardinality(Range(references) \cap DOMAIN data) = 1
                /\ Cardinality(Range(references)) = 2
                /\ \A r \in Range(references) \cap DOMAIN data :
                       data[r].kind = "XCBuildConfiguration")
               => Len(output) = 1

C3_Witness ==
    /\ pc = "get_build_configurations"
    /\ references = <<2, 1>>
    /\ DOMAIN data = {1}
    /\ output = <<XCBuildConfiguration("Staging")>>

(***************************************************************************)
(* Parse trees.  A node is a token (a rule and its text), an array of      *)
(* nodes or an object of fields; a field is a key's text and a node.       *)
(***************************************************************************)
Token(rule, text) == [rule |-> rule, text |-> text]
ArrayNode(items) == [rule |-> "array", items |-> items]
ObjectNode(fields) == [rule |-> "object", fields |-> fields]
Field(k, node) == [key |-> k, value |-> node]

RECURSIVE value(_)
RECURSIVE array(_)
RECURSIVE object(_)
RECURSIVE field(_)
RECURSIVE CollectValues(_)
RECURSIVE CollectFields(_, _)

\* array: the values of the children, in order
CollectValues(items) ==
    IF items = <<>> THEN Ok(<<>>)
    ELSE LET first == value(Head(items)) IN
         IF ~first.ok THEN first
         ELSE LET rest == CollectValues(Tail(items)) IN
              IF ~rest.ok THEN rest ELSE Ok(<<first.v>> \o rest.v)

array(node) ==
    LET values == CollectValues(node.items) IN
    IF values.ok THEN Ok(PBXArray(values.v)) ELSE values

\* field: the key, then the value
field(node) ==
    LET k == key(KeyInner(node.key), node.key) IN
    IF ~k.ok THEN k
    ELSE LET v == value(node.value) IN
         IF ~v.ok THEN v ELSE Ok(<<k.v, v.v>>)

\* object: the fields collected into a HashMap, a later key replacing an earlier one
CollectFields(fields, map) ==
    IF fields = <<>> THEN Ok(map)
    ELSE LET f == field(Head(fields)) IN
         IF ~f.ok THEN f
         ELSE CollectFields(Tail(fields), Insert(map, f.v[1], f.v[2]))

object(node) ==
    LET map == CollectFields(node.fields, EmptyMap) IN
    IF map.ok THEN Ok(PBXObjectValue(map.v)) ELSE map

value(node) ==
    CASE node.rule = "array" -> array(node)
      [] node.rule = "object" -> object(node)
      [] node.rule = "string" -> string(node.text)
      [] node.rule = "bool" -> bool(node.text)
      [] node.rule = "kind" -> kind(node.text)
      [] node.rule = "number" -> number(node.text)
      [] node.rule = "uuid" -> uuid(node.text)
      [] node.rule = "ident" -> ident(node.text)

\* file: the single top-level object, as a PBXHashMap
file(node) ==
    LET o == object(node) IN
    IF o.ok THEN Ok(o.v.v) ELSE o

(***************************************************************************)
(* PBXHashMap: the consuming accessors of a record.  Each looks the key up *)
(* as it is given; a successful access removes the field.                  *)
(***************************************************************************)
MissingField(k) == [kind |-> "MissingField", key |-> k]
TypeMismatch(k, expected) == [kind |-> "TypeMismatch", key |-> k, expected |-> expected]

Remove(map, k) == [x \in DOMAIN map \ {k} |-> map[x]]
remove_value(map, k) == IF k \in DOMAIN map THEN Some(map[k]) ELSE None
try_remove(map, k, type) ==
    IF k \notin DOMAIN map THEN Err(MissingField(k))
    ELSE IF map[k].type # type THEN Err(TypeMismatch(k, type))
    ELSE Ok(map[k].v)
try_remove_number(map, k) == try_remove(map, k, "Number")
try_remove_string(map, k) == try_remove(map, k, "String")
try_remove_object(map, k) == try_remove(map, k, "Object")
try_remove_vec(map, k) == try_remove(map, k, "Array")
remove_string(map, k) ==
    IF k \in DOMAIN map /\ map[k].type = "String" THEN Some(map[k].v) ELSE None
try_into_vec_strings(values) ==
    IF \E i \in DOMAIN values : values[i].type # "String"
    THEN Err([kind |-> "TypeMismatch", key |-> <<>>, expected |-> "String"])
    ELSE Ok([i \in DOMAIN values |-> values[i].v])

(***************************************************************************)
(* PBXProjectData::try_from(&str)                                          *)
(***************************************************************************)
\* `as u8`: the low eight bits
AsU8(n) == n % 256

PBXProjectData(archive_version, object_version, classes, objects, root_object_reference) ==
    [archive_version |-> archive_version,
     object_version |-> object_version,
     classes |-> classes,
     objects |-> objects,
     root_object_reference |-> root_object_reference]

\* try_from, from the parsed object on.  Each step takes one field out of the object and
\* hands the rest, with what was extracted so far, to the next; an error ends the
\* construction there.
TakeObjects(o, archive_version, object_version, classes, root_object_reference) ==
    LET objects == try_remove_object(o, KeyObjects) IN
    IF ~objects.ok THEN objects
    ELSE Ok(PBXProjectData(archive_version, object_version, classes, objects.v,
                           root_object_reference))

\* the root object, an absent one taken for the empty reference
TakeRootObject_defaulting(o, archive_version, object_version, classes) ==
    LET r == try_remove_string(o, KeyRootObject) IN
    TakeObjects(Remove(o, KeyRootObject), archive_version, object_version, classes,
                IF r.ok THEN r.v ELSE <<>>)

TakeRootObject(o, archive_version, object_version, classes) ==
    LET r == try_remove_string(o, KeyRootObject) IN
    IF ~r.ok THEN r
    ELSE TakeObjects(Remove(o, KeyRootObject), archive_version, object_version, classes, r.v)

TakeClasses(o, archive_version, object_version) ==
    LET c == try_remove_object(o, KeyClasses) IN
    IF c.ok
    THEN TakeRootObject(Remove(o, KeyClasses), archive_version, object_version, c.v)
    ELSE TakeRootObject(o, archive_version, object_version, EmptyMap)

TakeObjectVersion(o, archive_version) ==
    LET n == try_remove_number(o, KeyObjectVersion) IN
    IF ~n.ok THEN n
    ELSE TakeClasses(Remove(o, KeyObjectVersion), archive_version, AsU8(n.v))

TakeArchiveVersion(o) ==
    LET n == try_remove_number(o, KeyArchiveVersion) IN
    IF ~n.ok THEN n
    ELSE TakeObjectVersion(Remove(o, KeyArchiveVersion), AsU8(n.v))

PBXProjectData_try_from(content) ==
    LET parsed == file(content) IN
    IF ~parsed.ok THEN parsed ELSE TakeArchiveVersion(parsed.v)

(***************************************************************************)
(* XCConfigurationList::try_from(PBXHashMap) and                           *)
(* XCRemoteSwiftPackageReference::from_hashmap                             *)
(***************************************************************************)
TakeVisible(map, strings) ==
    LET visible == try_remove_number(map, KeyDefaultConfigurationIsVisible) IN
    IF ~visible.ok THEN visible
    ELSE Ok([build_configuration_references |-> strings,
             default_configuration_is_visible |-> (visible.v = 1),
             default_configuration_name |->
                 remove_string(Remove(map, KeyDefaultConfigurationIsVisible),
                               KeyDefaultConfigurationName)])

XCConfigurationList_try_from(map) ==
    LET vec == try_remove_vec(map, KeyBuildConfigurations) IN
    IF ~vec.ok THEN vec
    ELSE LET strings == try_into_vec_strings(vec.v) IN
         IF ~strings.ok THEN strings
         ELSE TakeVisible(Remove(map, KeyBuildConfigurations), strings.v)

from_hashmap(map) ==
    LET url == remove_value(map, KeyRepositoryURL)
        m1 == Remove(map, KeyRepositoryURL)
        requirement == remove_value(m1, KeyRequirement)
    IN  Ok([repository_url |->
                IF url.some /\ url.v.type = "String" THEN Some(url.v.v) ELSE None,
            version_requirement |->
                IF requirement.some /\ requirement.v.type = "Object"
                THEN Some(requirement.v.v) ELSE None])

(***************************************************************************)
(* SpecRecord: a text, parsed and handed to the constructor of its kind.   *)
(* A project document is built from its text in one call; a configuration  *)
(* list and a remote package reference are built from the parsed record.   *)
(***************************************************************************)
ArchiveVersionTexts == {<<"1">>, <<"2","5","6">>, <<"1",".","0">>}
ObjectVersionTexts == {<<"4","6">>, <<"3","0","0">>, <<"4",".","6">>}

\* The fields of a document in the order a project file holds them, those in `present`.
DocumentNode(present, archive, version) ==
    ObjectNode(SelectSeq(
        << Field(KeyArchiveVersionText, Token("number", archive)),
           Field(KeyClassesText, ObjectNode(<<>>)),
           Field(KeyObjectVersionText, Token("number", version)),
           Field(KeyObjectsText, ObjectNode(<<>>)),
           Field(KeyRootObjectText, Token("uuid", Uuid3)) >>,
        LAMBDA f : f.key \in present))

DocumentKeys ==
    {KeyArchiveVersionText, KeyClassesText, KeyObjectVersionText, KeyObjectsText,
     KeyRootObjectText}

DocumentNodes ==
    {DocumentNode(present, archive, version) :
        present \in SUBSET DocumentKeys,
        archive \in ArchiveVersionTexts,
        version \in ObjectVersionTexts}

ListNodes ==
    {ObjectNode(<< Field(<<"i","s","a">>, Token("kind", KindXCConfigurationList)),
                   Field(KeyBuildConfigurations,
                         ArrayNode([i \in DOMAIN ids |-> Token("uuid", ids[i])])),
                   Field(KeyDefaultConfigurationIsVisible, Token("number", visible)) >>
                \o name) :
        ids \in {<<>>} \cup Texts({Uuid1, Uuid2}, MaxRefs),
        visible \in {<<"0">>, <<"1">>},
        name \in {<<>>, <<Field(KeyDefaultConfigurationName, Token("ident", <<"D","e","b","u","g">>))>>}}

RemoteNodes ==
    {ObjectNode(<< Field(<<"i","s","a">>, Token("kind", KindXCRemoteSwiftPackageReference)),
                   Field(KeyRepositoryURL, Token("string", url)) >>) :
        url \in {t \in StringTexts : Len(t) <= 3}}

\* The field of the parse_key_pair test, and the same under an identifier key.
FieldNodes ==
    {Field(k, ObjectNode(<< Field(<<"i","s","a">>, Token("kind", KindPBXBuildFile)),
                            Field(KeyFileRef, Token("uuid", Uuid2)) >>)) :
        k \in {Uuid1, KeyFileRef}}

RecordInputs ==
    [kind : {"document"}, node : DocumentNodes]
        \cup [kind : {"field"}, node : FieldNodes]
        \cup [kind : {"list"}, node : ListNodes]
        \cup [kind : {"remote"}, node : RemoteNodes]

InitRecord ==
    /\ input \in RecordInputs
    /\ output = None
    /\ pc = "start"
    /\ NoGraph

TryFromDocument ==
    /\ pc = "start" /\ input.kind = "document"
    /\ output' = PBXProjectData_try_from(input.node)
    /\ pc' = "PBXProjectData"
    /\ UNCHANGED input /\ GraphUnchanged

ParseRecord ==
    /\ pc = "start" /\ input.kind \in {"list", "remote"}
    /\ output' = file(input.node)
    /\ pc' = "parsed"
    /\ UNCHANGED input /\ GraphUnchanged

TryFromConfigurationList ==
    /\ pc = "parsed" /\ input.kind = "list" /\ output.ok
    /\ output' = XCConfigurationList_try_from(output.v)
    /\ pc' = "XCConfigurationList"
    /\ UNCHANGED input /\ GraphUnchanged

FromHashmap ==
    /\ pc = "parsed" /\ input.kind = "remote" /\ output.ok
    /\ output' = from_hashmap(output.v)
    /\ pc' = "XCRemoteSwiftPackageReference"
    /\ UNCHANGED input /\ GraphUnchanged

ParseField ==
    /\ pc = "start" /\ input.kind = "field"
    /\ output' = field(input.node)
    /\ pc' = "field"
    /\ UNCHANGED input /\ GraphUnchanged

NextRecord ==
    TryFromDocument \/ ParseRecord \/ TryFromConfigurationList \/ FromHashmap \/ ParseField

SpecRecord == InitRecord /\ [][NextRecord]_vars

(***************************************************************************)
(* Properties of the constructors.                                         *)
(***************************************************************************)
HasField(node, k) == \E i \in DOMAIN node.fields : node.fields[i].key = k
FieldOf(node, k) ==
    node.fields[CHOOSE i \in DOMAIN node.fields : node.fields[i].key = k].value

\* The required fields in the order of their extraction: the key in the text, the key
\* the error names.
RequiredFields ==
    << <<KeyArchiveVersionText, KeyArchiveVersion>>,
       <<KeyObjectVersionText, KeyObjectVersion>>,
       <<KeyRootObjectText, KeyRootObject>>,
       <<KeyObjectsText, KeyObjects>> >>
MissingAt(node) == {i \in DOMAIN RequiredFields : ~HasField(node, RequiredFields[i][1])}
\* The type of the value a field's text denotes: a number holding a decimal point is a
\* String, as is every reference, identifier and quoted string.
TypeOf(node) ==
    CASE node.rule = "object" -> "Object"
      [] node.rule = "array" -> "Array"
      [] node.rule = "bool" -> "Bool"
      [] node.rule = "kind" -> "Kind"
      [] node.rule = "number" -> IF Contains(node.text, Dot) THEN "String" ELSE "Number"
      [] OTHER -> "String"
RequiredTypes == <<"Number", "Number", "String", "Object">>
MistypedAt(node) ==
    {i \in DOMAIN RequiredFields :
        /\ HasField(node, RequiredFields[i][1])
        /\ TypeOf(FieldOf(node, RequiredFields[i][1])) # RequiredTypes[i]}

\* C4 as stated: with a required field missing, construction returns an error that
\* names a missing field and no document; a text missing only the root object fails
\* with MissingField(root_object); a document is returned only with every required
\* field extracted.
C4_Original ==
    pc = "PBXProjectData" =>
        LET missing == MissingAt(input.node)
        IN  /\ missing # {} =>
                   /\ ~output.ok
                   /\ \E i \in missing : output.e.key = RequiredFields[i][2]
            /\ missing = {3} => (~output.ok /\ output.e = MissingField(KeyRootObject))
            /\ output.ok => missing = {}

\* C4: construction of a document is all-or-nothing.  With a required field missing, or
\* holding a value of another type than the one extracted, it returns no document and
\* an error naming the first such field in the order of extraction (archive_version,
\* object_version, root_object, objects): a missing-field error when that field is
\* missing, a type mismatch when it is of another type.  So a text missing only the root
\* object, its versions being integers, fails with MissingField(root_object).  A document
\* is returned only with every required field extracted.
C4_AllOrNothing ==
    pc = "PBXProjectData" =>
        LET missing == MissingAt(input.node)
            faulty == missing \cup MistypedAt(input.node)
        IN  /\ missing # {} => ~output.ok
            /\ faulty # {} =>
                   LET first == CHOOSE i \in faulty : \A j \in faulty : i <= j
                   IN  /\ ~output.ok
                       /\ output.e.key = RequiredFields[first][2]
                       /\ output.e.kind =
                              IF first \in missing THEN "MissingField" ELSE "TypeMismatch"
            /\ faulty = {3} => (~output.ok /\ output.e = MissingField(KeyRootObject))
            /\ output.ok =>
                   /\ faulty = {}
                   /\ DOMAIN output.v =
                        {"archive_version", "object_version", "classes", "objects",
                         "root_object_reference"}
                   /\ output.v.root_object_reference = FieldOf(input.node, KeyRootObjectText).text

C4_Witness ==
    /\ pc = "PBXProjectData"
    /\ ~HasField(input.node, KeyRootObjectText)
    /\ HasField(input.node, KeyArchiveVersionText)
    /\ HasField(input.node, KeyObjectVersionText)
    /\ HasField(input.node, KeyObjectsText)
    /\ output = Err(MissingField(KeyRootObject))

\* C9: the constructors look the keys up in the form the parser produces: a
\* configuration list parsed from buildConfigurations and defaultConfigurationIsVisible
\* maps to a list of those identifiers, visible exactly when the number is 1, and a
\* remote package parsed from repositoryURL holds that string as its repository_url.
C9_ConstructorsFindParsedKeys ==
    /\ pc = "XCConfigurationList" =>
        LET ids == FieldOf(input.node, KeyBuildConfigurations).items IN
        /\ output.ok
        /\ output.v.build_configuration_references = [i \in DOMAIN ids |-> ids[i].text]
        /\ output.v.default_configuration_is_visible =
              (FieldOf(input.node, KeyDefaultConfigurationIsVisible).text = <<"1">>)
    /\ pc = "XCRemoteSwiftPackageReference" =>
        /\ output.ok
        /\ output.v.repository_url =
              Some(Replace(FieldOf(input.node, KeyRepositoryURL).text, Quote))

\* C10: the archive_version and the object_version of a constructed document are the
\* integers of the text's fields; no other value is stored for one that does not fit.
C10_VersionsExact ==
    (pc = "PBXProjectData" /\ output.ok) =>
        /\ output.v.archive_version = Denoted(FieldOf(input.node, KeyArchiveVersionText).text)
        /\ output.v.object_version = Denoted(FieldOf(input.node, KeyObjectVersionText).text)

====
